---------------------------- MODULE Spec2Model ----------------------------
(***************************************************************************)
(* A model of mobibook.py: the MobiBook class that decodes a PDB section   *)
(* archive carrying a MOBI header and an EXTH metadata block.              *)
(*                                                                         *)
(* A Python 2 str is a sequence of byte values 0..255.  Offsets are the    *)
(* byte offsets of the source (0-based); Slice gives Python's slicing.     *)
(* The model's documents use bytes below 128 only, where the two codecs    *)
(* of CODEPAGE_MAP decode every byte to the code point of the same number. *)
(***************************************************************************)
EXTENDS Integers, Sequences, FiniteSets, TLC

\* ------------------------------------------------------------------------
\* Bounds of the model (not program constants).
\* ------------------------------------------------------------------------
\* The most records an enumerated EXTH block holds.
MaxItems == 2
\* The most sections an enumerated section table declares.
MaxSections == 3

\* ------------------------------------------------------------------------
\* Python primitives used by the source.
\* ------------------------------------------------------------------------
Min(a, b) == IF a < b THEN a ELSE b

\* s[a:b] for 0 <= a, 0 <= b: clipped to the string, empty when a >= b.
Slice(s, a, b) == SubSeq(s, a + 1, Min(b, Len(s)))

\* s[a:]
SliceFrom(s, a) == SubSeq(s, a + 1, Len(s))

RECURSIVE BigEndian(_)
\* The unsigned integer struct.unpack reads from big-endian bytes ('>H',
\* '>I', '>L', '>Q' differ only in the width, which the callers check).
BigEndian(s) ==
    IF s = <<>> THEN 0
    ELSE BigEndian(SubSeq(s, 1, Len(s) - 1)) * 256 + s[Len(s)]

\* struct.calcsize of the formats in EXTH_MAP_CONVERSIONS.
CalcSize(fmt) == IF fmt = ">Q" THEN 8 ELSE 4

\* str.strip() strips these bytes: ' ', \t, \n, \v, \f, \r.
StrWhitespace == {9, 10, 11, 12, 13, 32}

\* unicode.strip() strips the code points for which isspace() holds; below
\* 128 these are the str ones and the separators 0x1c..0x1f.
UnicodeWhitespace == {9, 10, 11, 12, 13, 28, 29, 30, 31, 32}

RECURSIVE LStrip(_, _)
LStrip(s, ws) ==
    IF s # <<>> /\ s[1] \in ws THEN LStrip(Tail(s), ws) ELSE s

RECURSIVE RStrip(_, _)
RStrip(s, ws) ==
    IF s # <<>> /\ s[Len(s)] \in ws
    THEN RStrip(SubSeq(s, 1, Len(s) - 1), ws) ELSE s

Strip(s, ws) == RStrip(LStrip(s, ws), ws)

RECURSIVE SplitNulFirst(_)
\* s.split('\0')[0]: the bytes before the first null byte.
SplitNulFirst(s) ==
    IF s = <<>> \/ s[1] = 0 THEN <<>>
    ELSE <<s[1]>> \o SplitNulFirst(Tail(s))

RECURSIVE DecimalStr(_)
\* str(v) of a non-negative integer: its decimal digits as ASCII bytes.
DecimalStr(n) ==
    IF n < 10 THEN <<48 + n>>
    ELSE DecimalStr(n \div 10) \o <<48 + (n % 10)>>

\* ------------------------------------------------------------------------
\* Module-level tables of the source.
\* ------------------------------------------------------------------------
BOOKMOBI == <<66, 79, 79, 75, 77, 79, 66, 73>>
EXTH == <<69, 88, 84, 72>>

EXTH_MAP_STRINGS ==
    [t \in {100, 101, 102, 103, 104, 105, 106, 107, 108, 109, 110, 111,
            112, 113, 116, 118, 119, 201, 406, 503} |->
       CASE t = 100 -> "Creator"     [] t = 101 -> "Publisher"
         [] t = 102 -> "Imprint"     [] t = 103 -> "Description"
         [] t = 104 -> "ISBN"        [] t = 105 -> "Subject"
         [] t = 106 -> "Published"   [] t = 107 -> "Review"
         [] t = 108 -> "Contributor" [] t = 109 -> "Rights"
         [] t = 110 -> "SubjectCode" [] t = 111 -> "Type"
         [] t = 112 -> "Source"      [] t = 113 -> "ASIN"
         [] t = 116 -> "StartOffset" [] t = 118 -> "Price"
         [] t = 119 -> "Currency"    [] t = 201 -> "CoverOffset"
         [] t = 406 -> "IsLibraryRental"
         [] t = 503 -> "UpdatedTitle"]

\* str.lower() on the names of EXTH_MAP_STRINGS.
Lower(v) ==
    CASE v = "Creator" -> "creator"         [] v = "Publisher" -> "publisher"
      [] v = "Imprint" -> "imprint"         [] v = "Description" -> "description"
      [] v = "ISBN" -> "isbn"               [] v = "Subject" -> "subject"
      [] v = "Published" -> "published"     [] v = "Review" -> "review"
      [] v = "Contributor" -> "contributor" [] v = "Rights" -> "rights"
      [] v = "SubjectCode" -> "subjectcode" [] v = "Type" -> "type"
      [] v = "Source" -> "source"           [] v = "ASIN" -> "asin"
      [] v = "StartOffset" -> "startoffset" [] v = "Price" -> "price"
      [] v = "Currency" -> "currency"       [] v = "CoverOffset" -> "coveroffset"
      [] v = "IsLibraryRental" -> "islibraryrental"
      [] v = "UpdatedTitle" -> "updatedtitle"

\* The keys of EXTH_RMAP_STRINGS.
RMapNames == {Lower(EXTH_MAP_STRINGS[t]) : t \in DOMAIN EXTH_MAP_STRINGS}

\* EXTH_RMAP_STRINGS[name], for a name among its keys.
EXTH_RMAP_STRINGS(name) ==
    CHOOSE t \in DOMAIN EXTH_MAP_STRINGS : Lower(EXTH_MAP_STRINGS[t]) = name

EXTH_MAP_CONVERSIONS ==
    [t \in {116, 201, 406} |-> IF t = 406 THEN ">Q" ELSE ">I"]

\* CODEPAGE_MAP.get(codepage, DEFAULT_ENCODING)
Encoding(codepage) ==
    IF codepage = 65001 THEN "utf-8" ELSE "windows-1252"

\* unicode(v, encoding) on bytes below 128: each byte decodes to the code
\* point of its number under both encodings.
Decode(v, encoding) == [k \in 1..Len(v) |-> v[k]]

EmptyMap == [t \in {} |-> <<>>]

\* d[k] = v on a dict.
DictSet(d, k, v) ==
    [t \in DOMAIN d \cup {k} |-> IF t = k THEN v ELSE d[t]]

\* d.get(k, '')
DictGet(d, k) == IF k \in DOMAIN d THEN d[k] ELSE <<>>

\* ------------------------------------------------------------------------
\* The file layout the source reads, used to enumerate documents.
\* ------------------------------------------------------------------------
Zeros(n) == [k \in 1..n |-> 0]

\* s with the bytes b written at offset off (s is long enough).
Put(s, off, b) ==
    SubSeq(s, 1, off) \o b \o SubSeq(s, off + Len(b) + 1, Len(s))

\* struct.pack of an unsigned big-endian integer of w <= 4 bytes.
BEBytes(v, w) == [k \in 1..w |-> (v \div (256 ^ (w - k))) % 256]

RECURSIVE Concat(_)
Concat(ss) == IF ss = <<>> THEN <<>> ELSE ss[1] \o Concat(Tail(ss))

\* The 78-byte PDB header: name at 0, format tag at 0x3C, section count at 76.
PDBHeader(name, tag, count) ==
    Put(Put(Put(Zeros(78), 0, name), 60, tag), 76, BEBytes(count, 2))

\* One 8-byte descriptor per section: offset, flags, 24-bit unique id.
SectionTable(offs) ==
    Concat([i \in 1..Len(offs) |-> BEBytes(offs[i], 4) \o <<i % 2, 0, 0, 2 * i>>])

\* One EXTH record: tag, declared total size, payload bytes.
ExthRecord(r) == BEBytes(r.tag, 4) \o BEBytes(r.size, 4) \o r.payload

\* An EXTH block: identifier, header length, item count, the records.
ExthBlock(ident, nitems, recs) ==
    ident \o BEBytes(12, 4) \o BEBytes(nitems, 4)
          \o Concat([i \in 1..Len(recs) |-> ExthRecord(recs[i])])

\* A record whose declared size is that of its payload.
Rec(tag, payload) == [tag |-> tag, size |-> 8 + Len(payload), payload |-> payload]

\* Section 0: the fixed fields of the MOBI header at their offsets, the bytes
\* at 0xF2, the EXTH block at mobi_length + 16 and the title bytes at 0x138.
Record0(f) ==
    LET z   == Zeros(320)
        s1  == Put(z, 0, BEBytes(2, 2))
        s2  == Put(s1, 8, BEBytes(7, 2))
        s3  == Put(s2, 12, BEBytes(f.crypto, 2))
        s4  == Put(s3, 20, BEBytes(f.mobi_length, 4))
        s5  == Put(s4, 28, BEBytes(f.codepage, 4))
        s6  == Put(s5, 84, BEBytes(312, 4) \o BEBytes(Len(f.title), 4))
        s7  == Put(s6, 104, BEBytes(f.version, 4))
        s8  == Put(s7, 108, BEBytes(9, 4))
        s9  == Put(s8, 128, BEBytes(f.exth_flag, 4))
        s10 == Put(s9, 168, BEBytes(3, 4) \o BEBytes(1, 4) \o BEBytes(48, 4)
                            \o BEBytes(0, 4))
        s11 == Put(s10, 242, f.xflags)
        s12 == Put(s11, 312, f.title)
    IN  Put(s12, f.mobi_length + 16, f.exth)

\* A whole file: PDB header, section table, section 0 and the later
\* sections at the offsets the table declares or, with layout "beyond" and
\* "unordered", at offsets past the file and out of order.
Document(name, tag, count, layout, r0) ==
    LET first == 78 + 8 * count
        body  == r0 \o Concat([i \in 1..(count - 1) |-> <<i, i, i, i>>])
        total == first + Len(body)
        seq   == [i \in 1..count |->
                    IF i = 1 THEN first ELSE first + Len(r0) + 4 * (i - 2)]
        offs  == CASE layout = "ordered" -> seq
                   [] layout = "beyond" ->
                        [i \in 1..count |-> IF i = 1 THEN seq[i] ELSE total + 5 * i]
                   [] layout = "unordered" ->
                        [i \in 1..count |-> IF i <= 2 THEN seq[i] ELSE seq[2] - 3 * i]
    IN  PDBHeader(name, tag, count) \o SectionTable(offs) \o body

Take(s, n) == SubSeq(s, 1, Min(n, Len(s)))

\* ------------------------------------------------------------------------
\* The documents the model reads.
\* ------------------------------------------------------------------------
\* Section 0 of an ordinary book: a version 6 header of length 0xE4 with an
\* EXTH block of one record and a title.
DefaultFields ==
    [crypto |-> 0, mobi_length |-> 228, codepage |-> 1252, version |-> 6,
     exth_flag |-> 80, xflags |-> <<0, 3>>, title |-> <<84>>,
     exth |-> ExthBlock(EXTH, 1, <<Rec(100, <<65>>)>>)]

\* Files that differ in the container: the format tag, the declared section
\* count, the section offsets, and where the file ends.
ContainerDocs ==
    { Take(Document(<<78>>, tag, count, layout, Record0(DefaultFields)), cut) :
        tag \in {BOOKMOBI, <<66, 79, 79, 75, 77, 79, 66, 74>>,
                 <<84, 69, 88, 116, 82, 69, 65, 100>>},
        count \in 0..MaxSections,
        layout \in {"ordered", "beyond", "unordered"},
        cut \in {30, 64, 67, 68, 77, 78, 85, 78 + 8 * MaxSections - 1, 1000} }

\* Files that differ in the fixed fields of section 0 and in its length.
HeaderDocs ==
    { Document(<<78>>, BOOKMOBI, 1, "ordered",
               Take(Record0([DefaultFields EXCEPT !.mobi_length = ml,
                                !.version = ver, !.xflags = xf,
                                !.exth_flag = ef]), cut)) :
        ml \in {168, 224, 228}, ver \in {4, 5, 6},
        xf \in {<<0, 0>>, <<0, 3>>, <<1, 0>>}, ef \in {0, 64},
        cut \in {9, 111, 183, 184, 242, 243, 244, 320} }

\* The records an enumerated EXTH block is made of: consistent ones (a tag
\* twice, the title) and ones whose declared size is 0, less
\* than 8, or larger than the bytes that follow.
RecordChoices ==
    { Rec(100, <<65>>), Rec(100, <<66, 67>>), Rec(503, <<85>>),
      [tag |-> 101, size |-> 0, payload |-> <<>>],
      [tag |-> 101, size |-> 4, payload |-> <<>>],
      [tag |-> 102, size |-> 12, payload |-> <<80, 81>>] }

RECURSIVE SeqsUpTo(_, _)
\* The sequences over S of length at most n.
SeqsUpTo(S, n) ==
    IF n = 0 THEN {<<>>}
    ELSE LET shorter == SeqsUpTo(S, n - 1)
         IN  shorter \cup {Append(q, x) : q \in shorter, x \in S}

\* Section 0 with the EXTH block b at 0xB8, the section ending drop bytes
\* before the block does.
ExthRecord0(b, drop) ==
    Take(Record0([DefaultFields EXCEPT !.mobi_length = 168, !.version = 4,
                     !.exth = b, !.title = <<>>]),
         184 + Len(b) - drop)

\* Files that differ in the EXTH block: its identifier, its item count, its
\* records, and how many of its last bytes are missing.
ExthDocs ==
    { Document(<<78>>, BOOKMOBI, 1, "ordered",
               ExthRecord0(ExthBlock(EXTH, nitems, recs), drop)) :
        nitems \in 0..(MaxItems + 1), recs \in SeqsUpTo(RecordChoices, MaxItems),
        drop \in {0, 1, 9} }
    \cup
    { Document(<<78>>, BOOKMOBI, 1, "ordered",
               ExthRecord0(ExthBlock(ident, 1, <<Rec(100, <<65>>)>>), drop)) :
        ident \in {EXTH, <<69, 88, 84, 88>>, <<0, 0, 0, 0>>},
        drop \in {0, 10, 15, 21} }

\* Files that differ in the three title candidates.
TitleDocs ==
    { Document(name, BOOKMOBI, 1, "ordered",
               Record0([DefaultFields EXCEPT !.title = title,
                          !.exth = ExthBlock(EXTH, Len(recs), recs)])) :
        name \in {<<>>, <<78>>, <<32, 78>>, <<78, 32, 0, 88>>, <<32, 0, 88>>},
        title \in {<<>>, <<32>>, <<84>>, <<32, 84, 32>>},
        recs \in {<<>>, <<Rec(503, <<>>)>>, <<Rec(503, <<32>>)>>,
                  <<Rec(503, <<85>>)>>, <<Rec(503, <<32, 85, 32>>)>>,
                  <<Rec(503, <<9, 32>>)>>} }

\* Files that differ in the values stored under the numeric tags.
NumericDocs ==
    { Document(<<78>>, BOOKMOBI, 1, "ordered",
               Record0([DefaultFields EXCEPT !.codepage = cp,
                          !.exth = ExthBlock(EXTH, 4,
                             <<Rec(116, a), Rec(201, b), Rec(406, c),
                               Rec(104, <<57, 55, 56>>)>>)])) :
        cp \in {1252, 65001, 0},
        a \in {<<>>, <<0, 0, 1, 2>>, <<65, 0, 0, 7>>, <<1, 2, 3>>},
        b \in {<<0, 0, 0, 0>>, <<0, 1, 0, 0>>, <<0, 0, 0, 0, 9>>},
        c \in {<<0, 0, 0, 0, 0, 0, 0, 1>>, <<0, 0, 0, 0, 0, 1, 2, 3>>,
               <<0, 0, 0, 1>>} }

Documents == ContainerDocs \cup HeaderDocs \cup ExthDocs \cup TitleDocs
             \cup NumericDocs

\* The names and section numbers the queries are made with.
QueryNames ==
    {"creator", "Creator", "publisher", "isbn", "startoffset", "coveroffset",
     "islibraryrental", "updatedtitle", "record1"}

\* ------------------------------------------------------------------------
\* State: the attributes of one MobiBook under construction, where the
\* constructor stands, and the outcome of the last call made on the object.
\* ------------------------------------------------------------------------
VARIABLES
    data_file,        \* self.data_file: the bytes read from infile
    pc,               \* where __init__ stands; "done": the object exists;
                      \* "failed": __init__ raised and no object exists
    error,            \* the exception __init__ raised, "" when none
    header, magic,    \* self.header, self.magic
    num_sections, sections,
    record0,
    compression, txt_records, firstimg,
    extra_data_flags, read_extra,  \* read_extra: line 106 was executed
    meta_array,
    mobi_length, mobi_codepage, mobi_version, exth_off,
    crypto_type, drm,
    exth_nitems, exth_i, exth_pos,  \* the locals nitems, i, pos of processEXTH
    exth_calls,       \* the calls processEXTH made to its callback, in order
    exth_ret,         \* what processEXTH returned: "None", "True", "False"
    result            \* what the last query returned or raised

container == <<data_file, header, magic, num_sections, sections, record0>>
fields == <<compression, txt_records, firstimg, extra_data_flags, read_extra,
            mobi_length, mobi_codepage, mobi_version, exth_off, crypto_type,
            drm>>
exthvars == <<exth_nitems, exth_i, exth_pos, exth_calls, exth_ret>>
vars == <<container, fields, exthvars, meta_array, pc, error, result>>

NoResult == [op |-> "none", name |-> "", section |-> 0, kind |-> "none",
             val |-> <<>>]

\* The object before __init__ runs on a file: no attribute is set (-1 and
\* the empty values stand for an attribute that does not exist yet).
Init ==
    /\ data_file \in Documents
    /\ pc = "new"
    /\ error = ""
    /\ header = <<>> /\ magic = <<>>
    /\ num_sections = -1 /\ sections = <<>>
    /\ record0 = <<>>
    /\ compression = -1 /\ txt_records = -1 /\ firstimg = -1
    /\ extra_data_flags = -1 /\ read_extra = FALSE
    /\ meta_array = EmptyMap
    /\ mobi_length = -1 /\ mobi_codepage = -1 /\ mobi_version = -1
    /\ exth_off = -1 /\ crypto_type = -2 /\ drm = <<>>
    /\ exth_nitems = -1 /\ exth_i = -1 /\ exth_pos = -1
    /\ exth_calls = <<>> /\ exth_ret = "notcalled"
    /\ result = NoResult

\* A tag that agrees with the format tag in its first 7 bytes only.
TagMatchesPrefix(m) == Slice(m, 0, 7) = Slice(BOOKMOBI, 0, 7)

\* The comparison of line 76.
TagMatches(m) == m = BOOKMOBI

\* __init__, lines 73-78: read the file, check the format tag.
CheckMagic ==
    /\ pc = "new"
    /\ header' = Slice(data_file, 0, 78)
    /\ magic' = Slice(header', 60, 68)
    /\ IF ~TagMatches(magic')
       THEN /\ pc' = "failed"
            /\ error' = "MobiException"
            /\ UNCHANGED crypto_type
       ELSE /\ pc' = "parse_sections"
            /\ crypto_type' = -1
            /\ UNCHANGED error
    /\ UNCHANGED <<data_file, num_sections, sections, record0, compression,
                   txt_records, firstimg, extra_data_flags, read_extra,
                   mobi_length, mobi_codepage, mobi_version, exth_off, drm,
                   exthvars, meta_array, result>>

\* The descriptor parseSections unpacks for section i (0-based), when the
\* file holds its 8 bytes.
SectionTuple(data, i) ==
    LET d == Slice(data, 78 + i * 8, 78 + i * 8 + 8)
    IN  <<BigEndian(SubSeq(d, 1, 4)), d[5],
          d[6] * 65536 + d[7] * 256 + d[8]>>

\* The number of descriptors parseSections appends before struct.unpack
\* raises on a short slice, or num when it never does.
SectionsRead(data, num) ==
    LET short == {i \in 0..(num - 1) :
                    Len(Slice(data, 78 + i * 8, 78 + i * 8 + 8)) # 8}
    IN  IF short = {} THEN num
        ELSE CHOOSE i \in short : \A j \in short : i <= j

\* parseSections, lines 141-149.
ParseSections ==
    /\ pc = "parse_sections"
    /\ IF Len(Slice(header, 76, 78)) # 2
       THEN /\ pc' = "failed"
            /\ error' = "struct.error"
            /\ UNCHANGED <<num_sections, sections>>
       ELSE LET num  == BigEndian(Slice(header, 76, 78))
                read == SectionsRead(data_file, num)
            IN  /\ num_sections' = num
                /\ sections' = [i \in 1..read |-> SectionTuple(data_file, i - 1)]
                /\ IF read < num
                   THEN pc' = "failed" /\ error' = "struct.error"
                   ELSE pc' = "load_record0" /\ UNCHANGED error
    /\ UNCHANGED <<data_file, header, magic, record0, fields, exthvars,
                   meta_array, result>>

\* An end offset that is the end of the file for every section.
SectionEndAlwaysFileEnd(data, num, secs, section) == Len(data)

\* endoff of loadSection, lines 153-156, when indexing raises nothing.
SectionEnd(data, num, secs, section) ==
    IF section + 1 = num THEN Len(data) ELSE secs[section + 2][1]

\* loadSection, lines 151-158: the bytes it returns, or the IndexError that
\* indexing self.sections raises.
LoadSectionResult(data, num, secs, section) ==
    IF section + 1 # num /\ section + 1 >= Len(secs)
    THEN [kind |-> "IndexError", val |-> <<>>]
    ELSE IF section >= Len(secs)
    THEN [kind |-> "IndexError", val |-> <<>>]
    ELSE LET endoff == SectionEnd(data, num, secs, section)
             off    == secs[section + 1][1]
         IN  [kind |-> "value", val |-> Slice(data, off, endoff)]

\* __init__, lines 84-92: section 0, its first fields, the defaults.
LoadRecord0 ==
    /\ pc = "load_record0"
    /\ LET r == LoadSectionResult(data_file, num_sections, sections, 0)
       IN  IF r.kind # "value"
           THEN /\ pc' = "failed" /\ error' = r.kind
                /\ UNCHANGED <<record0, fields, meta_array>>
           ELSE /\ record0' = r.val
                /\ IF Len(Slice(r.val, 0, 2)) # 2
                   THEN /\ pc' = "failed" /\ error' = "struct.error"
                        /\ UNCHANGED <<fields, meta_array>>
                   ELSE IF Len(Slice(r.val, 8, 10)) # 2
                   THEN /\ pc' = "failed" /\ error' = "struct.error"
                        /\ compression' = BigEndian(Slice(r.val, 0, 2))
                        /\ UNCHANGED <<txt_records, firstimg, extra_data_flags,
                                       read_extra, mobi_length, mobi_codepage,
                                       mobi_version, exth_off, crypto_type,
                                       drm, meta_array>>
                   ELSE /\ pc' = "parse_header" /\ UNCHANGED error
                        /\ compression' = BigEndian(Slice(r.val, 0, 2))
                        /\ txt_records' = BigEndian(Slice(r.val, 8, 10))
                        /\ firstimg' = txt_records' + 1
                        /\ extra_data_flags' = 0
                        /\ meta_array' = EmptyMap
                        /\ mobi_length' = 0
                        /\ mobi_version' = -1
                        /\ UNCHANGED <<read_extra, mobi_codepage, exth_off,
                                       crypto_type, drm>>
    /\ UNCHANGED <<data_file, header, magic, num_sections, sections, exthvars,
                   result>>

\* struct.unpack of a w-byte big-endian field at offset off of s succeeds
\* when the slice holds all w bytes (struct.error otherwise).
CanUnpack(s, off, w) == Len(Slice(s, off, off + w)) = w

Unpack(s, off, w) == BigEndian(Slice(s, off, off + w))

\* A condition that holds when either comparison does.
HasExtraDataFlagsEither(length, version) == length >= 228 \/ version >= 5

\* The condition of line 105.
HasExtraDataFlags(length, version) == length >= 228 /\ version >= 5

\* exth_flag & 0x40
ExthBitSet(flag) == (flag \div 64) % 2 = 1

\* Whether the unpacks of parseMobiHeader, lines 97-114, all succeed on r0:
\* they run in source order and the first short slice raises struct.error.
FixedFieldsParse(r0) ==
    /\ CanUnpack(r0, 20, 4)
    /\ CanUnpack(r0, 28, 4)
    /\ CanUnpack(r0, 104, 4)
    /\ Len(r0) >= 108 + 4
    /\ (HasExtraDataFlags(Unpack(r0, 20, 4), Unpack(r0, 104, 4))
          => CanUnpack(r0, 242, 2))
    /\ CanUnpack(r0, 12, 2)
    /\ Len(Slice(r0, 168, 168 + 16)) = 16
    /\ CanUnpack(r0, 128, 4)

\* parseMobiHeader, lines 97-117, with the first lines of processEXTH
\* (121-127) when the EXTH bit is set.
ParseMobiHeader ==
    /\ pc = "parse_header"
    /\ mobi_length' = IF CanUnpack(record0, 20, 4)
                      THEN Unpack(record0, 20, 4) ELSE mobi_length
    /\ mobi_codepage' = IF CanUnpack(record0, 28, 4)
                        THEN Unpack(record0, 28, 4) ELSE mobi_codepage
    /\ mobi_version' = IF CanUnpack(record0, 104, 4)
                       THEN Unpack(record0, 104, 4) ELSE mobi_version
    /\ exth_off' = IF CanUnpack(record0, 104, 4)
                   THEN mobi_length' + 16 ELSE exth_off
    /\ firstimg' = IF Len(record0) >= 108 + 4
                   THEN Unpack(record0, 108, 4) ELSE firstimg
    /\ LET reached == Len(record0) >= 108 + 4
           extra   == reached /\ HasExtraDataFlags(mobi_length', mobi_version')
           past    == reached /\ (extra => CanUnpack(record0, 242, 2))
       IN  /\ read_extra' = extra
           /\ extra_data_flags' = IF extra /\ CanUnpack(record0, 242, 2)
                                  THEN Unpack(record0, 242, 2)
                                  ELSE extra_data_flags
           /\ crypto_type' = IF past THEN Unpack(record0, 12, 2)
                             ELSE crypto_type
           /\ drm' = IF past /\ Len(Slice(record0, 168, 168 + 16)) = 16
                     THEN <<Unpack(record0, 168, 4), Unpack(record0, 172, 4),
                            Unpack(record0, 176, 4)>>
                     ELSE drm
    /\ IF ~FixedFieldsParse(record0)
       THEN /\ pc' = "failed" /\ error' = "struct.error"
            /\ UNCHANGED <<exthvars, meta_array>>
       ELSE /\ UNCHANGED error
            /\ IF ~ExthBitSet(Unpack(record0, 128, 4))
               THEN /\ pc' = "done"
                    /\ UNCHANGED <<exthvars, meta_array>>
               ELSE LET exth == SliceFrom(record0, exth_off')
                    IN  IF Len(exth) < 12 \/ Slice(exth, 0, 4) # EXTH
                        THEN \* processEXTH returns None; line 117
                             /\ exth_ret' = "None"
                             /\ meta_array' = EmptyMap
                             /\ pc' = "done"
                             /\ UNCHANGED <<exth_nitems, exth_i, exth_pos,
                                            exth_calls>>
                        ELSE /\ exth_nitems' = Unpack(exth, 8, 4)
                             /\ exth_pos' = 12
                             /\ exth_i' = 0
                             /\ pc' = "exth"
                             /\ UNCHANGED <<exth_calls, exth_ret, meta_array>>
    /\ UNCHANGED <<container, compression, txt_records, result>>

\* self.record0[self.exth_off:]
ExthSlice == SliceFrom(record0, exth_off)

\* The slice content of line 130.
ExthContent(exth, pos, size) == Slice(exth, pos + 8, pos + size)

\* An advance that counts the record header twice.
ExthAdvancePastHeader(pos, size) == pos + 8 + size

\* The advance of line 132.
ExthAdvance(pos, size) == pos + size

\* One round of the loop of processEXTH, lines 128-132, storeEXTH included.
ExthIter ==
    /\ pc = "exth"
    /\ exth_i < exth_nitems
    /\ CanUnpack(ExthSlice, exth_pos, 8)
    /\ LET exth_type == Unpack(ExthSlice, exth_pos, 4)
           size      == Unpack(ExthSlice, exth_pos + 4, 4)
           content   == ExthContent(ExthSlice, exth_pos, size)
       IN  /\ meta_array' = DictSet(meta_array, exth_type, content)
           /\ exth_calls' = Append(exth_calls, <<exth_type, exth_pos, content>>)
           /\ exth_pos' = ExthAdvance(exth_pos, size)
    /\ exth_i' = exth_i + 1
    /\ UNCHANGED <<container, fields, exth_nitems, exth_ret, pc, error, result>>

\* What parseMobiHeader leaves in meta_array when processEXTH returned
\* False (line 117).
MetaAfterFailure(meta) == EmptyMap

\* struct.unpack raises in the loop: lines 133-135 return False, line 117
\* empties meta_array, and __init__ returns.
ExthRaise ==
    /\ pc = "exth"
    /\ exth_i < exth_nitems
    /\ ~CanUnpack(ExthSlice, exth_pos, 8)
    /\ exth_ret' = "False"
    /\ meta_array' = MetaAfterFailure(meta_array)
    /\ pc' = "done"
    /\ UNCHANGED <<container, fields, exth_nitems, exth_i, exth_pos,
                   exth_calls, error, result>>

\* The loop ends: line 136 returns True and __init__ returns.
ExthReturn ==
    /\ pc = "exth"
    /\ exth_i = exth_nitems
    /\ exth_ret' = "True"
    /\ pc' = "done"
    /\ UNCHANGED <<container, fields, exth_nitems, exth_i, exth_pos,
                   exth_calls, meta_array, error, result>>

\* An unknown name answered with the empty value.
UnknownAttrEmpty == [kind |-> "value", val |-> <<>>]

\* Lines 161-163: the outcome for a name that is not in EXTH_RMAP_STRINGS.
UnknownAttr == [kind |-> "AttributeError", val |-> <<>>]

\* A conversion that returns the stored bytes.
ConvertNone(fmt, v) == v

\* Lines 167-168: str() of the integer struct.unpack reads from v.
Convert(fmt, v) == DecimalStr(BigEndian(v))

\* __getattr__, lines 160-170: the text returned or the exception raised.
GetAttrResult(meta, codepage, name) ==
    IF name \notin RMapNames
    THEN UnknownAttr
    ELSE LET tag == EXTH_RMAP_STRINGS(name)
             v   == DictGet(meta, tag)
         IN  IF tag \in DOMAIN EXTH_MAP_CONVERSIONS /\ v # <<>>
             THEN IF Len(v) # CalcSize(EXTH_MAP_CONVERSIONS[tag])
                  THEN [kind |-> "struct.error", val |-> <<>>]
                  ELSE [kind |-> "value",
                        val |-> Decode(Convert(EXTH_MAP_CONVERSIONS[tag], v),
                                       Encoding(codepage))]
             ELSE [kind |-> "value", val |-> Decode(v, Encoding(codepage))]

\* A caller reads the attribute name of the object.
GetAttr(name) ==
    /\ pc = "done"
    /\ LET r == GetAttrResult(meta_array, mobi_codepage, name)
       IN  result' = [op |-> "getattr", name |-> name, section |-> 0,
                      kind |-> r.kind, val |-> r.val]
    /\ UNCHANGED <<container, fields, exthvars, meta_array, pc, error>>

\* The title property, lines 172-183.
TitleResult(meta, codepage, r0, hdr) ==
    LET encoding == Encoding(codepage)
        updated  == GetAttrResult(meta, codepage, "updatedtitle").val
    IN  IF updated = <<>> /\ ~CanUnpack(r0, 84, 8)
        THEN [kind |-> "struct.error", val |-> <<>>]
        ELSE LET toff   == Unpack(r0, 84, 4)
                 tlen   == Unpack(r0, 88, 4)
                 title  == IF updated = <<>>
                           THEN Decode(Slice(r0, toff, toff + tlen), encoding)
                           ELSE updated
                 strip  == Strip(title, UnicodeWhitespace)
             IN  IF strip = <<>>
                 THEN [kind |-> "value",
                       val |-> Decode(SplitNulFirst(
                                  Strip(Slice(hdr, 0, 32), StrWhitespace)),
                                  encoding)]
                 ELSE [kind |-> "value", val |-> strip]

\* A caller reads book.title.
Title ==
    /\ pc = "done"
    /\ LET r == TitleResult(meta_array, mobi_codepage, record0, header)
       IN  result' = [op |-> "title", name |-> "", section |-> 0,
                      kind |-> r.kind, val |-> r.val]
    /\ UNCHANGED <<container, fields, exthvars, meta_array, pc, error>>

\* A caller calls book.loadSection(section).
LoadSection(section) ==
    /\ pc = "done"
    /\ LET r == LoadSectionResult(data_file, num_sections, sections, section)
       IN  result' = [op |-> "loadSection", name |-> "", section |-> section,
                      kind |-> r.kind, val |-> r.val]
    /\ UNCHANGED <<container, fields, exthvars, meta_array, pc, error>>

Next ==
    \/ CheckMagic
    \/ ParseSections
    \/ LoadRecord0
    \/ ParseMobiHeader
    \/ ExthIter
    \/ ExthRaise
    \/ ExthReturn
    \/ \E name \in QueryNames : GetAttr(name)
    \/ Title
    \/ \E section \in 0..MaxSections : LoadSection(section)

Spec == Init /\ [][Next]_vars

\* ------------------------------------------------------------------------
\* What the claims speak of, read from the bytes of the file.
\* ------------------------------------------------------------------------
Max(a, b) == IF a > b THEN a ELSE b

\* The bytes of s at the 0-based offsets a <= p < b that s has.
BytesOf(s, a, b) == [k \in 1..Max(0, Min(b, Len(s)) - a) |-> s[a + k]]

\* The 4-byte big-endian number at offset off of s.
U32At(s, off) ==
    s[off + 1] * 16777216 + s[off + 2] * 65536 + s[off + 3] * 256 + s[off + 4]

U16At(s, off) == s[off + 1] * 256 + s[off + 2]

\* The file holds the 8 bytes of the format tag at offset 0x3C.
TagPresent ==
    /\ Len(data_file) >= 68
    /\ \A k \in 1..8 : data_file[60 + k] = BOOKMOBI[k]

\* __init__ has not parsed anything beyond the tag.
NothingParsed ==
    /\ num_sections = -1 /\ sections = <<>> /\ record0 = <<>>
    /\ mobi_length = -1 /\ exth_ret = "notcalled" /\ exth_calls = <<>>
    /\ meta_array = EmptyMap

\* C1: a file whose 8 bytes at 0x3C are not the format tag (a file too
\* short to hold them included) makes __init__ raise MobiException before
\* it parses the section table, section 0 or the EXTH block, and no object
\* exists afterwards (nothing can be queried).
C1_BadTagRejected ==
    ~TagPresent =>
        /\ pc \in {"new", "failed"}
        /\ pc = "failed" => error = "MobiException"
        /\ NothingParsed
        /\ result = NoResult

C1_Witness ==
    /\ ~TagPresent /\ Len(data_file) >= 78
    /\ pc = "failed" /\ error = "MobiException"

\* The offset the section table declares for section i (0-based).
DeclaredOffset(i) == U32At(data_file, 78 + 8 * i)

\* C4: for every index i below the section count, loadSection(i) returns
\* the bytes of the file from section i's offset up to the next section's
\* offset, or up to the end of the file for the last section.
C4_LoadSectionBytes ==
    /\ (result.op = "loadSection" /\ result.section < num_sections) =>
          /\ result.kind = "value"
          /\ result.val =
               BytesOf(data_file, DeclaredOffset(result.section),
                       IF result.section = num_sections - 1
                       THEN Len(data_file)
                       ELSE DeclaredOffset(result.section + 1))
    /\ pc \in {"parse_header", "exth", "done"} =>
          record0 = BytesOf(data_file, DeclaredOffset(0),
                            IF num_sections = 1 THEN Len(data_file)
                            ELSE DeclaredOffset(1))

C4_Witness ==
    /\ result.op = "loadSection" /\ result.section + 1 < num_sections
    /\ result.kind = "value" /\ Len(result.val) >= 4
    /\ Len(result.val) < Len(data_file) - DeclaredOffset(result.section)

\* C8: after header parsing extra_data_flags is the 16-bit value at 0xF2 of
\* section 0 when mobi_length >= 0xE4 and mobi_version >= 5; otherwise the
\* bytes at 0xF2 are not read and it is 0, and a section 0 without the
\* field does not make construction fail.
C8_ExtraDataFlags ==
    /\ pc \in {"exth", "done"} =>
          IF U32At(record0, 20) >= 228 /\ U32At(record0, 104) >= 5
          THEN read_extra /\ extra_data_flags = U16At(record0, 242)
          ELSE ~read_extra /\ extra_data_flags = 0
    /\ (pc = "failed" /\ extra_data_flags # -1) =>
          \/ Len(record0) < 184
          \/ /\ U32At(record0, 20) >= 228 /\ U32At(record0, 104) >= 5
             /\ Len(record0) < 244

C8_Witness ==
    /\ pc = "done"
    /\ U32At(record0, 20) = 224 /\ U32At(record0, 104) >= 5
    /\ Len(record0) >= 244 /\ U16At(record0, 242) # 0
    /\ extra_data_flags = 0

\* C9: a file with the format tag that is shorter than 78 + count*8 bytes
\* makes section-table parsing fail with the error of a format-tag
\* mismatch (MobiException), and no object is produced.
C9_ShortTableInvalidFormat ==
    (/\ TagPresent /\ Len(data_file) >= 78
     /\ Len(data_file) < 78 + 8 * U16At(data_file, 76)
     /\ pc \notin {"new", "parse_sections"}) =>
        pc = "failed" /\ error = "MobiException"

\* The EXTH slice of a parsed section 0: its bytes from mobi_length + 16.
TheExth == SliceFrom(record0, U32At(record0, 20) + 16)

\* __init__ has returned and the header said that an EXTH block is present.
ExthParsed == pc = "done" /\ (U32At(record0, 128) \div 64) % 2 = 1

\* The slice starts with the identifier and the item count.
HasExthHeader(exth) ==
    Len(exth) >= 12 /\ \A k \in 1..4 : exth[k] = EXTH[k]

RECURSIVE RecordsInside(_, _, _)
\* The n records from offset pos each have a total size of 8 or more and
\* lie inside the slice.
RecordsInside(exth, pos, n) ==
    \/ n = 0
    \/ /\ pos + 8 <= Len(exth)
       /\ U32At(exth, pos + 4) >= 8
       /\ pos + U32At(exth, pos + 4) <= Len(exth)
       /\ RecordsInside(exth, pos + U32At(exth, pos + 4), n - 1)

WellFormedExth(exth) ==
    HasExthHeader(exth) /\ RecordsInside(exth, 12, U32At(exth, 8))

RECURSIVE DeclaredRecords(_, _, _)
\* The n records from offset pos of a well-formed block, in block order:
\* tag, offset, and the totalSize - 8 payload bytes after the 8-byte header.
DeclaredRecords(exth, pos, n) ==
    IF n = 0 THEN <<>>
    ELSE LET size == U32At(exth, pos + 4)
         IN  << <<U32At(exth, pos),
                  pos,
                  [j \in 1..(size - 8) |-> exth[pos + 8 + j]]>> >>
             \o DeclaredRecords(exth, pos + size, n - 1)

RECURSIVE SumSizes(_, _, _)
SumSizes(exth, pos, n) ==
    IF n = 0 THEN 0
    ELSE U32At(exth, pos + 4)
         + SumSizes(exth, pos + U32At(exth, pos + 4), n - 1)

\* The index of a record list: for each tag the payload of its last record.
IndexOf(recs) ==
    [t \in {recs[k][1] : k \in 1..Len(recs)} |->
       LET last == CHOOSE k \in 1..Len(recs) :
                     /\ recs[k][1] = t
                     /\ \A j \in 1..Len(recs) : recs[j][1] = t => j <= k
       IN  recs[last][3]]

\* C5: on a well-formed EXTH block the walk stores exactly itemCount
\* records, one per declared record and in block order, each with its tag
\* and the totalSize - 8 bytes after its header, and the cursor ends at 12
\* plus the sum of the records' total sizes.
C5_WalkStoresDeclaredRecords ==
    (ExthParsed /\ WellFormedExth(TheExth)) =>
        LET n == U32At(TheExth, 8)
        IN  /\ exth_ret = "True"
            /\ Len(exth_calls) = n
            /\ exth_calls = DeclaredRecords(TheExth, 12, n)
            /\ exth_pos = 12 + SumSizes(TheExth, 12, n)
            /\ meta_array = IndexOf(DeclaredRecords(TheExth, 12, n))

C5_Witness ==
    /\ ExthParsed /\ WellFormedExth(TheExth)
    /\ Len(exth_calls) = 2
    /\ exth_calls[1][1] = exth_calls[2][1]
    /\ exth_calls[1][3] # exth_calls[2][3]
    /\ exth_pos = Len(TheExth)

\* C10: after construction MetadataIndex is empty or it is the complete
\* index of all itemCount declared records, each payload being exactly
\* totalSize - 8 bytes; a record that runs past the end of the slice or
\* whose totalSize is less than 8 leaves it empty.
C10_AllOrNothing ==
    ExthParsed =>
        \/ meta_array = EmptyMap
        \/ /\ WellFormedExth(TheExth)
           /\ meta_array =
                IndexOf(DeclaredRecords(TheExth, 12, U32At(TheExth, 8)))

RECURSIVE RecordsAvailable(_, _)
\* The number of records from offset pos that lie inside the slice.
RecordsAvailable(exth, pos) ==
    IF /\ pos + 8 <= Len(exth)
       /\ U32At(exth, pos + 4) >= 8
       /\ pos + U32At(exth, pos + 4) <= Len(exth)
    THEN 1 + RecordsAvailable(exth, pos + U32At(exth, pos + 4))
    ELSE 0

\* The block is truncated or corrupt: shorter than 12 bytes, not starting
\* with 'EXTH', or declaring more records than the slice holds.
CorruptExth(exth) ==
    \/ Len(exth) < 12
    \/ \E k \in 1..4 : exth[k] # EXTH[k]
    \/ U32At(exth, 8) > RecordsAvailable(exth, 12)

\* C2: when the EXTH bit is set and the block is truncated or corrupt,
\* header parsing does not raise, construction succeeds, and MetadataIndex
\* is empty afterwards however many records had been stored.
C2_CorruptExthEmptyIndex ==
    /\ pc = "failed" => exth_ret = "notcalled" /\ exth_i = -1
    /\ (/\ pc \in {"exth", "done"}
        /\ (U32At(record0, 128) \div 64) % 2 = 1
        /\ CorruptExth(TheExth)) =>
           (pc = "done" => meta_array = EmptyMap)

\* The first of the candidates that is not empty, or the empty string.
FirstNonEmpty(a, b, c) ==
    IF a # <<>> THEN a ELSE IF b # <<>> THEN b ELSE c

\* C3: title() is the first non-empty one of three candidates, each
\* stripped of leading and trailing whitespace: the 'updatedtitle' field,
\* the byte range section 0 declares at 0x54, and the first 32 bytes of the
\* file cut at the first null byte; it is empty when all three are.
C3_TitleFirstNonEmpty ==
    (result.op = "title" /\ result.kind = "value") =>
        result.val =
          FirstNonEmpty(
            Strip(DictGet(meta_array, 503), StrWhitespace),
            Strip(BytesOf(record0, U32At(record0, 84),
                          U32At(record0, 84) + U32At(record0, 88)),
                  StrWhitespace),
            Strip(SplitNulFirst(BytesOf(data_file, 0, 32)), StrWhitespace))

\* The lower-cased names of the name table.
KnownFieldNames ==
    {"creator", "publisher", "imprint", "description", "isbn", "subject",
     "published", "review", "contributor", "rights", "subjectcode", "type",
     "source", "asin", "startoffset", "price", "currency", "coveroffset",
     "islibraryrental", "updatedtitle"}

\* The tag of each known name that the model queries.
TagOfName(name) ==
    CASE name = "creator" -> 100         [] name = "publisher" -> 101
      [] name = "isbn" -> 104            [] name = "startoffset" -> 116
      [] name = "coveroffset" -> 201     [] name = "islibraryrental" -> 406
      [] name = "updatedtitle" -> 503

\* C6: field(name) fails with UnknownField (AttributeError) exactly when
\* name is not a key of the lower-cased name table; a known name whose tag
\* is absent yields the empty string; a failing query changes no state of
\* the object, so every query answers after it as it did before it.
C6_UnknownFieldOnly ==
    [][ /\ result'.op = "getattr" =>
             /\ result'.kind = "AttributeError"
                  <=> result'.name \notin KnownFieldNames
             /\ (/\ result'.name \in KnownFieldNames
                 /\ TagOfName(result'.name) \notin DOMAIN meta_array') =>
                   (result'.kind = "value" /\ result'.val = <<>>)
        /\ result'.kind = "AttributeError" =>
             /\ UNCHANGED <<container, fields, exthvars, meta_array, pc, error>>
             /\ \A n \in QueryNames :
                  GetAttrResult(meta_array', mobi_codepage', n)
                    = GetAttrResult(meta_array, mobi_codepage, n)
             /\ TitleResult(meta_array', mobi_codepage', record0', header')
                  = TitleResult(meta_array, mobi_codepage, record0, header)
      ]_vars

C6_Witness ==
    /\ result.op = "getattr" /\ result.name = "Creator"
    /\ result.kind = "AttributeError"
    /\ 100 \in DOMAIN meta_array

NumericNames == {"startoffset", "coveroffset", "islibraryrental"}

\* The registered width of a numeric field, in bytes.
NumericWidth(name) == IF name = "islibraryrental" THEN 8 ELSE 4

RECURSIVE Horner(_, _, _)
\* The number whose digits in the given base are s, most significant first.
Horner(s, base, acc) ==
    IF s = <<>> THEN acc ELSE Horner(Tail(s), base, acc * base + s[1])

\* text is the decimal rendering of n: digits only, no leading zero.
IsDecimalOf(text, n) ==
    /\ text # <<>>
    /\ \A k \in 1..Len(text) : text[k] \in 48..57
    /\ Len(text) > 1 => text[1] # 48
    /\ Horner([k \in 1..Len(text) |-> text[k] - 48], 10, 0) = n

\* The raw bytes stored under the tag of the name last queried.
QueriedRaw == DictGet(meta_array, TagOfName(result.name))

\* C7 as stated: for a numeric field every non-empty raw value is returned
\* as the decimal rendering of the big-endian unsigned integer it holds.
C7_EveryNonEmptyRaw ==
    (/\ result.op = "getattr" /\ result.name \in NumericNames
     /\ QueriedRaw # <<>>) =>
        /\ result.kind = "value"
        /\ IsDecimalOf(result.val, Horner(QueriedRaw, 256, 0))

\* C7 as amended: for a numeric field a raw value of exactly the registered
\* width (4 bytes for tags 116 and 201, 8 for tag 406) is returned as the
\* decimal rendering of the big-endian unsigned integer it holds, an absent
\* or empty raw value yields the empty string, and a non-empty raw value of
\* another length makes the query raise struct.error; every other tag's raw
\* bytes are returned without numeric conversion.
C7_RegisteredWidthOnly ==
    (result.op = "getattr" /\ result.name \in KnownFieldNames) =>
        IF result.name \in NumericNames
        THEN /\ QueriedRaw = <<>> =>
                  (result.kind = "value" /\ result.val = <<>>)
             /\ Len(QueriedRaw) = NumericWidth(result.name) =>
                  /\ result.kind = "value"
                  /\ IsDecimalOf(result.val, Horner(QueriedRaw, 256, 0))
             /\ (/\ QueriedRaw # <<>>
                 /\ Len(QueriedRaw) # NumericWidth(result.name)) =>
                  result.kind = "struct.error"
        ELSE result.kind = "value" /\ result.val = QueriedRaw

C7_Witness ==
    /\ result.op = "getattr" /\ result.name = "islibraryrental"
    /\ Len(QueriedRaw) = 8 /\ Horner(QueriedRaw, 256, 0) > 255
    /\ result.kind = "value" /\ Len(result.val) > 3

=============================================================================
